---- MODULE Spec2Model ----
(***************************************************************************)
(* Model of src/main.ts: SimpleRenderer (render / update /                 *)
(* saveRenderedImage), getDevice, loop and the top-level program.          *)
(*                                                                         *)
(* Three specifications share the module:                                  *)
(*   Spec        the program: startup, event loop, update() tasks, the     *)
(*               device queue and the windowing service's event stream;    *)
(*   SpecGrid    the compute dispatch (WGSL entry point + dispatch grid)   *)
(*               as a function of the frame dimensions;                    *)
(*   SpecSummary the "Buffer data summary" of update() at 800x600.         *)
(***************************************************************************)
EXTENDS Integers, Sequences, FiniteSets, TLC

\* ------------------------------------------------------------------------
\* Bounds of the model
\* ------------------------------------------------------------------------
\* frame dimensions used by Spec in place of 800 x 600
FrameW == 2
FrameH == 2
\* events the windowing service posts in one run
MaxEvents == 3
\* calls of window.events().next() in one run
MaxNext == 3
\* update() invocations in one run
MaxDraws == 2
\* largest frame dimensions explored by SpecGrid
MaxW == 18
MaxH == 17

\* ------------------------------------------------------------------------
\* Program constants
\* ------------------------------------------------------------------------
\* @workgroup_size(16, 16) and Math.ceil(800 / 16)
WorkgroupSize == 16
\* new WindowBuilder("Simple Renderer", 800, 600)
Width == 800
Height == 600
\* bytes per texel: size: 800 * 600 * 4
BytesPerTexel == 4

\* A u32 is kept as two 16-bit halves.
U32(hi, lo) == [hi |-> hi, lo |-> lo]
Zero32 == U32(0, 0)
\* output[index] = 0xFF00FF00u
ShaderValue == U32(65280, 65280)

\* Mutant: the bytes of one u32 taken most significant first.
U32Bytes_BigEndian(v) == << v.hi \div 256, v.hi % 256, v.lo \div 256, v.lo % 256 >>

\* new Uint8Array(arrayBuffer): the bytes of one u32, little-endian
U32Bytes(v) == << v.lo % 256, v.lo \div 256, v.hi % 256, v.hi \div 256 >>

\* Math.ceil(n / 16)
CeilDiv(n, d) == (n + d - 1) \div d

\* ------------------------------------------------------------------------
\* The compute dispatch
\* ------------------------------------------------------------------------
\* Mutant: Math.floor in place of Math.ceil.
GridDim_Floor(n) == n \div WorkgroupSize

\* Math.ceil(800 / 16), Math.ceil(600 / 16): workgroups along one axis
GridDim(n) == CeilDiv(n, WorkgroupSize)

\* dispatchWorkgroups(Math.ceil(w / 16), Math.ceil(h / 16))
Workgroups(w, h) == (0 .. GridDim(w) - 1) \X (0 .. GridDim(h) - 1)

\* global_invocation_id of the invocations of workgroup wg
Invocations(wg) ==
  ((wg[1] * WorkgroupSize) .. (wg[1] * WorkgroupSize + WorkgroupSize - 1))
    \X ((wg[2] * WorkgroupSize) .. (wg[2] * WorkgroupSize + WorkgroupSize - 1))

\* let index = global_id.y * 800u + global_id.x
Index(id, w) == id[2] * w + id[1]

\* Mutant guard: the bounds check dropped.
Guard_Absent(index, w, h) == TRUE

\* if (index < 800u * 600u)
Guard(index, w, h) == index < w * h

\* the invocations of workgroup wg that execute output[index] = ...
InvWrites(wg, w, h) ==
  { id \in Invocations(wg) : Guard(Index(id, w), w, h) }

\* the whole grid
Grid(w, h) == UNION { Invocations(wg) : wg \in Workgroups(w, h) }

\* indices written by one complete dispatch
DispatchIndices(w, h) ==
  { Index(id, w) : id \in UNION { InvWrites(wg, w, h) : wg \in Workgroups(w, h) } }

\* invocations along one axis of the grid
GridExtent(n) == GridDim(n) * WorkgroupSize

\* the invocations of the grid that store to index: global_id.x = index - y * w
WritersOf(index, w, h) ==
  LET top == index \div w
      span == GridExtent(w) \div w
  IN  { id \in { << index - y * w, y >> :
                   y \in (IF top > span THEN top - span ELSE 0) .. top } :
          /\ id[1] < GridExtent(w)
          /\ id[2] < GridExtent(h)
          /\ Guard(index, w, h) }

\* one texel of the Output Buffer after a dispatch into a zeroed buffer
TexelAfterDispatch(index, w, h) ==
  IF WritersOf(index, w, h) # {} THEN ShaderValue ELSE Zero32

\* Mutant: the shader reads the texel and flips it, so a frame depends on
\* the frame before.
Dispatch_Toggle(buf, w, h) ==
  [ i \in DOMAIN buf |->
      IF i \in DispatchIndices(w, h)
        THEN (IF buf[i] = ShaderValue THEN Zero32 ELSE ShaderValue)
        ELSE buf[i] ]

\* Output Buffer after one complete dispatch.  A store past the end of the
\* runtime-sized array is discarded by the device.
Dispatch(buf, w, h) ==
  [ i \in DOMAIN buf |-> IF i \in DispatchIndices(w, h) THEN ShaderValue ELSE buf[i] ]


\* ------------------------------------------------------------------------
\* Buffers and bytes
\* ------------------------------------------------------------------------
Texels == 0 .. (FrameW * FrameH - 1)

\* createBuffer: contents start zeroed
ZeroBuf == [ i \in Texels |-> Zero32 ]

\* new Uint8Array(arrayBuffer): the bytes of a mapped buffer
Bytes(buf) ==
  [ i \in 1 .. (FrameW * FrameH * BytesPerTexel) |->
      U32Bytes(buf[(i - 1) \div BytesPerTexel])[((i - 1) % BytesPerTexel) + 1] ]

\* data.filter(byte => byte !== 0).length
NonZeroCount(bytes) == Cardinality({ i \in 1 .. Len(bytes) : bytes[i] # 0 })

\* data.findIndex(byte => byte !== 0): 0-based, -1 when there is none
FirstNonZero(bytes) ==
  IF \E i \in 1 .. Len(bytes) : bytes[i] # 0
    THEN (CHOOSE i \in 1 .. Len(bytes) :
            bytes[i] # 0 /\ \A j \in 1 .. (i - 1) : bytes[j] = 0) - 1
    ELSE -1

\* "Buffer data summary"
Summary(bytes) ==
  [ total |-> Len(bytes), nonZero |-> NonZeroCount(bytes), first |-> FirstNonZero(bytes) ]

NoSummary == [ total |-> -1, nonZero |-> -1, first |-> -1 ]

\* ------------------------------------------------------------------------
\* State
\* ------------------------------------------------------------------------
VARIABLES
  pc,              \* position of the top-level program / loop()
  adapterRequests, \* calls of navigator.gpu.requestAdapter()
  deviceRequests,  \* calls of adapter.requestDevice()
  device,          \* "none" | "ok"
  window,          \* "none" | "open"
  buffersCreated,  \* calls of device.createBuffer()
  pipelinesBuilt,  \* calls of device.createComputePipeline()
  renderBuffer,    \* contents of this.renderBuffer
  frameCount,      \* this.frameCount
  pending,         \* events the windowing service holds, not yet consumed
  posted,          \* events posted so far
  nextCalls,       \* calls of window.events().next()
  lastNext,        \* what the last events().next() gave: a type, "done" or an error name
  cur,             \* update() invocations started
  exitBy,          \* what ended loop()
  exitCode,        \* argument of Deno.exit, -1 before
  upc,             \* position of each update() invocation
  failed,          \* the error update() caught, per invocation
  thrown,          \* the error update() let escape, per invocation
  trace,           \* steps performed by each update() invocation, in order
  stagingState,    \* "none" | "unmapped" | "pending" | "mapped" per frame
  stagingData,     \* contents of each frame's stagingBuffer
  summary,         \* the logged buffer data summary, per frame
  encoded,         \* bytes png.data received, per frame
  queue,           \* command buffers submitted to device.queue, not yet executed
  surface,         \* bytes shown by the last canvas.present(), <<>> before
  gw, gh,          \* SpecGrid: frame dimensions
  gdone,           \* SpecGrid: workgroups executed
  gwrites,         \* SpecGrid: stores per buffer index
  gnoop,           \* SpecGrid: invocations that executed no store
  srow,            \* SpecSummary: rows scanned
  scount,          \* SpecSummary: non-zero bytes seen
  sfirst           \* SpecSummary: index of the first non-zero byte, -1 if none

progVars ==
  << pc, adapterRequests, deviceRequests, device, window, buffersCreated, pipelinesBuilt,
     renderBuffer, frameCount,
     pending, posted, nextCalls, lastNext, cur, exitBy, exitCode, upc, failed, thrown, trace,
     stagingState, stagingData, summary, encoded, queue, surface >>
gridVars == << gw, gh, gdone, gwrites, gnoop >>
sumVars == << srow, scount, sfirst >>
vars == << progVars, pipelinesBuilt,
                  gridVars, sumVars >>

Frames == 1 .. MaxDraws

\* EventType members the switch in loop() distinguishes; "Other" is any
\* type that reaches default:
EventTypes == { "Draw", "Quit", "KeyDown", "MouseMotion", "Other" }

NoErr == [ name |-> "none", stage |-> "none" ]
Err(name, stage) == [ name |-> name, stage |-> stage ]

GridIdle == gw = 0 /\ gh = 0 /\ gdone = {} /\ gwrites = << >> /\ gnoop = {}
SumIdle == srow = 0 /\ scount = 0 /\ sfirst = -1

\* console.log("Starting application"); frameCount: number = 0
\* (the state of the program before its first statement)
ProgInit ==
  /\ pc = "requestAdapter"
  /\ adapterRequests = 0
  /\ deviceRequests = 0
  /\ device = "none"
  /\ window = "none"
  /\ buffersCreated = 0
  /\ pipelinesBuilt = 0
  /\ renderBuffer = ZeroBuf
  /\ frameCount = 0
  /\ pending = << >>
  /\ posted = 0
  /\ nextCalls = 0
  /\ lastNext = "none"
  /\ cur = 0
  /\ exitBy = "none"
  /\ exitCode = -1
  /\ upc = [ t \in Frames |-> "idle" ]
  /\ failed = [ t \in Frames |-> NoErr ]
  /\ thrown = [ t \in Frames |-> NoErr ]
  /\ trace = [ t \in Frames |-> << >> ]
  /\ stagingState = [ t \in Frames |-> "none" ]
  /\ stagingData = [ t \in Frames |-> ZeroBuf ]
  /\ summary = [ t \in Frames |-> NoSummary ]
  /\ encoded = [ t \in Frames |-> << >> ]
  /\ queue = << >>
  /\ surface = << >>

Init == ProgInit /\ GridIdle /\ SumIdle

loopVars == << pending, posted, nextCalls, lastNext, cur, exitBy >>
updVars == << upc, failed, thrown, trace, stagingState, stagingData, summary, encoded >>
gpuVars == << buffersCreated, renderBuffer, queue, surface, frameCount >>
startVars == << adapterRequests, deviceRequests, device, window >>

\* ------------------------------------------------------------------------
\* Startup and shutdown (top level, getDevice, constructor, init)
\* ------------------------------------------------------------------------
\* const adapter = await navigator.gpu.requestAdapter(); if (!adapter) throw
RequestAdapter ==
  /\ pc = "requestAdapter"
  /\ adapterRequests' = adapterRequests + 1
  /\ \E found \in BOOLEAN :
       pc' = IF found THEN "requestDevice" ELSE "fatal"
  /\ UNCHANGED << deviceRequests, device, window, exitCode, loopVars, updVars, gpuVars,
                  pipelinesBuilt,
                  gridVars, sumVars >>

\* Mutant: a failed device request is logged and startup goes on.
RequestDevice_Continue ==
  /\ pc = "requestDevice"
  /\ deviceRequests' = deviceRequests + 1
  /\ \E ok \in BOOLEAN :
       /\ pc' = "construct"
       /\ device' = IF ok THEN "ok" ELSE device
  /\ UNCHANGED << adapterRequests, window, exitCode, loopVars, updVars, gpuVars,
                  pipelinesBuilt, gridVars, sumVars >>

\* const device = await adapter.requestDevice({...})
RequestDevice ==
  /\ pc = "requestDevice"
  /\ deviceRequests' = deviceRequests + 1
  /\ \E ok \in BOOLEAN :
       /\ pc' = IF ok THEN "construct" ELSE "fatal"
       /\ device' = IF ok THEN "ok" ELSE device
  /\ UNCHANGED << adapterRequests, window, exitCode, loopVars, updVars, gpuVars,
                  pipelinesBuilt,
                  gridVars, sumVars >>

\* renderer = new SimpleRenderer(device)
Construct ==
  /\ pc = "construct"
  /\ \E ok \in BOOLEAN :
       /\ pc' = IF ok THEN "init" ELSE "fatal"
       /\ window' = IF ok THEN "open" ELSE window
       /\ buffersCreated' = IF ok THEN buffersCreated + 1 ELSE buffersCreated
       /\ renderBuffer' = ZeroBuf
  /\ UNCHANGED << adapterRequests, deviceRequests, device, exitCode, loopVars, updVars,
                  queue, surface, frameCount, pipelinesBuilt,
                  gridVars, sumVars >>

\* await renderer.init(); await loop(renderer)
InitRenderer ==
  /\ pc = "init"
  /\ pc' = "loop_next"
  /\ UNCHANGED << startVars, exitCode, loopVars, updVars, gpuVars, pipelinesBuilt,
                  gridVars, sumVars >>

\* console.log("Application finished normally") / console.error("Fatal error:")
Finally ==
  /\ pc \in { "finished", "fatal" }
  /\ pc' = "cleanup"
  /\ UNCHANGED << startVars, exitCode, loopVars, updVars, gpuVars, pipelinesBuilt,
                  gridVars, sumVars >>

\* Mutant: the exit status tells a fatal error from a normal end.
Exit_NonZero ==
  /\ pc = "cleanup"
  /\ pc' = "exited"
  /\ exitCode' = IF exitBy = "none" THEN 1 ELSE 0
  /\ UNCHANGED << startVars, loopVars, updVars, gpuVars, pipelinesBuilt, gridVars, sumVars >>

\* Deno.exit(0)
Exit ==
  /\ pc = "cleanup"
  /\ pc' = "exited"
  /\ exitCode' = 0
  /\ UNCHANGED << startVars, loopVars, updVars, gpuVars, pipelinesBuilt,
                  gridVars, sumVars >>


\* ------------------------------------------------------------------------
\* The windowing service
\* ------------------------------------------------------------------------
\* the service queues an event for the window
Post(e) ==
  /\ window = "open"
  /\ pc # "exited"
  /\ posted < MaxEvents
  /\ posted' = posted + 1
  /\ pending' = Append(pending, e)
  /\ UNCHANGED << pc, startVars, exitCode, nextCalls, lastNext, cur, exitBy, updVars,
                  gpuVars, pipelinesBuilt,
                  gridVars, sumVars >>

\* ------------------------------------------------------------------------
\* loop()
\* ------------------------------------------------------------------------
\* Mutant: the end of the stream is logged and the loop goes on.
LoopDone_Continue ==
  /\ pc = "loop_next"
  /\ nextCalls < MaxNext
  /\ nextCalls' = nextCalls + 1
  /\ lastNext' = "done"
  /\ pc' = "loop_next"
  /\ exitBy' = exitBy
  /\ UNCHANGED << startVars, exitCode, pending, posted, cur, updVars, gpuVars,
                  pipelinesBuilt, gridVars, sumVars >>

\* event.done: break
LoopDone ==
  /\ pc = "loop_next"
  /\ nextCalls < MaxNext
  /\ nextCalls' = nextCalls + 1
  /\ lastNext' = "done"
  /\ pc' = "finished"
  /\ exitBy' = "done"
  /\ UNCHANGED << startVars, exitCode, pending, posted, cur, updVars, gpuVars,
                  pipelinesBuilt,
                  gridVars, sumVars >>

\* Mutant: the catch of loop() never breaks.
LoopCatch_NeverBreak(err) ==
  /\ pc' = "loop_next"
  /\ exitBy' = exitBy

\* catch (error): break only on a DOMException named "AbortError"
LoopCatch(err) ==
  IF err.name = "AbortError"
    THEN /\ pc' = "finished"
         /\ exitBy' = err.stage
    ELSE /\ pc' = "loop_next"
         /\ exitBy' = exitBy

\* names of the errors events().next() can reject with
NextErrors == { "AbortError", "Error" }

\* await renderer.window.events().next() rejects
LoopNextThrows(name) ==
  /\ pc = "loop_next"
  /\ nextCalls < MaxNext
  /\ nextCalls' = nextCalls + 1
  /\ lastNext' = name
  /\ LoopCatch(Err(name, "next"))
  /\ UNCHANGED << startVars, exitCode, pending, posted, cur, updVars, gpuVars,
                  pipelinesBuilt,
                  gridVars, sumVars >>

\* Mutant: renderer.update() is called without await.
LoopDraw_NoAwait ==
  /\ pc = "loop_next"
  /\ nextCalls < MaxNext
  /\ pending # << >>
  /\ Head(pending) = "Draw"
  /\ cur < MaxDraws
  /\ nextCalls' = nextCalls + 1
  /\ pending' = Tail(pending)
  /\ lastNext' = Head(pending)
  /\ cur' = cur + 1
  /\ upc' = [ upc EXCEPT ![cur + 1] = "render" ]
  /\ pc' = "loop_next"
  /\ UNCHANGED << startVars, exitCode, posted, exitBy, failed, thrown, trace, stagingState,
                  stagingData, summary, encoded, gpuVars, pipelinesBuilt,
                  gridVars, sumVars >>

\* case EventType.Draw: await renderer.update()
LoopDraw ==
  /\ pc = "loop_next"
  /\ nextCalls < MaxNext
  /\ pending # << >>
  /\ Head(pending) = "Draw"
  /\ cur < MaxDraws
  /\ nextCalls' = nextCalls + 1
  /\ pending' = Tail(pending)
  /\ lastNext' = Head(pending)
  /\ cur' = cur + 1
  /\ upc' = [ upc EXCEPT ![cur + 1] = "render" ]
  /\ pc' = "await_update"
  /\ UNCHANGED << startVars, exitCode, posted, exitBy, failed, thrown, trace, stagingState,
                  stagingData, summary, encoded, gpuVars, pipelinesBuilt,
                  gridVars, sumVars >>

\* Mutant: Quit is handled like KeyDown.
LoopQuit_Ignored ==
  /\ pc = "loop_next"
  /\ nextCalls < MaxNext
  /\ pending # << >>
  /\ Head(pending) = "Quit"
  /\ nextCalls' = nextCalls + 1
  /\ pending' = Tail(pending)
  /\ lastNext' = Head(pending)
  /\ pc' = "loop_next"
  /\ exitBy' = exitBy
  /\ UNCHANGED << startVars, exitCode, posted, cur, updVars, gpuVars, pipelinesBuilt,
                  gridVars, sumVars >>

\* case EventType.Quit: return
LoopQuit ==
  /\ pc = "loop_next"
  /\ nextCalls < MaxNext
  /\ pending # << >>
  /\ Head(pending) = "Quit"
  /\ nextCalls' = nextCalls + 1
  /\ pending' = Tail(pending)
  /\ lastNext' = Head(pending)
  /\ pc' = "finished"
  /\ exitBy' = "Quit"
  /\ UNCHANGED << startVars, exitCode, posted, cur, updVars, gpuVars, pipelinesBuilt,
                  gridVars, sumVars >>

\* Mutant: every event other than Quit redraws.
LoopNoop_Redraw ==
  /\ pc = "loop_next"
  /\ nextCalls < MaxNext
  /\ pending # << >>
  /\ Head(pending) \in { "KeyDown", "MouseMotion", "Other" }
  /\ cur < MaxDraws
  /\ nextCalls' = nextCalls + 1
  /\ pending' = Tail(pending)
  /\ lastNext' = Head(pending)
  /\ cur' = cur + 1
  /\ upc' = [ upc EXCEPT ![cur + 1] = "render" ]
  /\ pc' = "await_update"
  /\ UNCHANGED << startVars, exitCode, posted, exitBy, failed, thrown, trace, stagingState,
                  stagingData, summary, encoded, gpuVars, pipelinesBuilt, gridVars, sumVars >>

\* case EventType.KeyDown / EventType.MouseMotion / default: break
LoopNoop ==
  /\ pc = "loop_next"
  /\ nextCalls < MaxNext
  /\ pending # << >>
  /\ Head(pending) \in { "KeyDown", "MouseMotion", "Other" }
  /\ nextCalls' = nextCalls + 1
  /\ pending' = Tail(pending)
  /\ lastNext' = Head(pending)
  /\ pc' = "loop_next"
  /\ UNCHANGED << startVars, exitCode, posted, cur, exitBy, updVars, gpuVars,
                  pipelinesBuilt,
                  gridVars, sumVars >>

\* await renderer.update() settles: the next iteration, or the catch of loop()
LoopResume ==
  /\ pc = "await_update"
  /\ upc[cur] = "done"
  /\ IF thrown[cur] = NoErr
       THEN pc' = "loop_next" /\ exitBy' = exitBy
       ELSE LoopCatch(Err(thrown[cur].name, "update"))
  /\ UNCHANGED << startVars, exitCode, pending, posted, nextCalls, lastNext, cur, updVars,
                  gpuVars, pipelinesBuilt,
                  gridVars, sumVars >>


\* ------------------------------------------------------------------------
\* SimpleRenderer.update() and SimpleRenderer.render()
\* ------------------------------------------------------------------------
\* Mutant: update() has no catch, the error reaches its caller.
UpdateCatch_Rethrow(t, err) ==
  /\ upc' = [ upc EXCEPT ![t] = "done" ]
  /\ failed' = [ failed EXCEPT ![t] = err ]
  /\ thrown' = [ thrown EXCEPT ![t] = err ]

\* update(): catch (error) { console.error("Error during update:", error) }
UpdateCatch(t, err) ==
  /\ upc' = [ upc EXCEPT ![t] = "done" ]
  /\ failed' = [ failed EXCEPT ![t] = err ]
  /\ thrown' = thrown

\* update() moves on to its next statement
UpdateStep(t, next) ==
  /\ upc' = [ upc EXCEPT ![t] = next ]
  /\ UNCHANGED << failed, thrown >>

Log(t, steps) == trace' = [ trace EXCEPT ![t] = trace[t] \o steps ]

\* Mutant: this.frameCount++ placed at the end of update().
RenderOk_CountLater(t) ==
  /\ pipelinesBuilt' = pipelinesBuilt + 1
  /\ queue' = Append(queue, [ op |-> "dispatch", frame |-> t ])
  /\ frameCount' = frameCount
  /\ Log(t, << "dispatch" >>)
  /\ UpdateStep(t, "copy")

\* Mutant: the pipeline is built by the first render() and kept.
RenderOk_Cached(t) ==
  /\ pipelinesBuilt' = IF pipelinesBuilt = 0 THEN 1 ELSE pipelinesBuilt
  /\ queue' = Append(queue, [ op |-> "dispatch", frame |-> t ])
  /\ frameCount' = frameCount + 1
  /\ Log(t, << "dispatch", "count" >>)
  /\ UpdateStep(t, "copy")

\* render(): the pipeline is built, the pass submitted, this.frameCount++
RenderOk(t) ==
  /\ pipelinesBuilt' = pipelinesBuilt + 1
  /\ queue' = Append(queue, [ op |-> "dispatch", frame |-> t ])
  /\ frameCount' = frameCount + 1
  /\ Log(t, << "dispatch", "count" >>)
  /\ UpdateStep(t, "copy")

\* this.render(), called from update()
Render(t) ==
  /\ upc[t] = "render"
  /\ \/ RenderOk(t)
     \/ /\ UpdateCatch(t, Err("Error", "build"))
        /\ UNCHANGED << pipelinesBuilt, queue, frameCount, trace >>
     \/ /\ pipelinesBuilt' = pipelinesBuilt + 1
        /\ UpdateCatch(t, Err("Error", "submit"))
        /\ UNCHANGED << queue, frameCount, trace >>
  /\ UNCHANGED << pc, startVars, exitCode, loopVars, stagingState, stagingData, summary,
                  encoded, buffersCreated, renderBuffer, surface, gridVars, sumVars >>

\* createBuffer (staging), copyBufferToBuffer, queue.submit, mapAsync called
CopySubmit(t) ==
  /\ upc[t] = "copy"
  /\ \/ /\ buffersCreated' = buffersCreated + 1
        /\ stagingData' = [ stagingData EXCEPT ![t] = ZeroBuf ]
        /\ stagingState' = [ stagingState EXCEPT ![t] = "pending" ]
        /\ queue' = Append(queue, [ op |-> "copy", frame |-> t ])
        /\ Log(t, << "copy" >>)
        /\ UpdateStep(t, "await_map")
     \/ /\ UpdateCatch(t, Err("Error", "createBuffer"))
        /\ UNCHANGED << buffersCreated, stagingData, stagingState, queue, trace >>
     \/ /\ buffersCreated' = buffersCreated + 1
        /\ stagingData' = [ stagingData EXCEPT ![t] = ZeroBuf ]
        /\ stagingState' = [ stagingState EXCEPT ![t] = "unmapped" ]
        /\ UpdateCatch(t, Err("Error", "copy"))
        /\ UNCHANGED << queue, trace >>
  /\ UNCHANGED << pc, startVars, exitCode, loopVars, summary, encoded, renderBuffer,
                  surface, frameCount, pipelinesBuilt,
                  gridVars, sumVars >>

\* Mutant: the mapping is handed out without waiting for the queue.
MapReady_NoWait == TRUE

\* mapAsync resolves once the work submitted before it has executed
MapReady == queue = << >>

\* await stagingBuffer.mapAsync(GPUMapMode.READ) resolves
MapResolve(t) ==
  /\ upc[t] = "await_map"
  /\ MapReady
  /\ stagingState' = [ stagingState EXCEPT ![t] = "mapped" ]
  /\ Log(t, << "mapped" >>)
  /\ UpdateStep(t, "read")
  /\ UNCHANGED << pc, startVars, exitCode, loopVars, stagingData, summary, encoded,
                  gpuVars, pipelinesBuilt,
                  gridVars, sumVars >>

\* names of the errors mapAsync can reject with
MapErrors == { "AbortError", "OperationError" }

\* await stagingBuffer.mapAsync(GPUMapMode.READ) rejects
MapReject(t, name) ==
  /\ upc[t] = "await_map"
  /\ stagingState' = [ stagingState EXCEPT ![t] = "unmapped" ]
  /\ UpdateCatch(t, Err(name, "map"))
  /\ UNCHANGED << pc, startVars, exitCode, loopVars, trace, stagingData, summary, encoded,
                  gpuVars, pipelinesBuilt,
                  gridVars, sumVars >>

\* data, the Uint8Array over getMappedRange(): the bytes of the staging buffer
\* while it is mapped, an empty array once unmap() detached the ArrayBuffer
ViewBytes(t) ==
  IF stagingState[t] = "mapped" THEN Bytes(stagingData[t]) ELSE << >>

\* Mutant: the mapped bytes go to the window without the encoder step.
ReadMapped_PresentFirst(t) ==
  /\ upc[t] = "read"
  /\ summary' = [ summary EXCEPT ![t] = Summary(ViewBytes(t)) ]
  /\ Log(t, << "read" >>)
  /\ UpdateStep(t, "present")
  /\ UNCHANGED << pc, startVars, exitCode, loopVars, stagingState, stagingData, encoded,
                  gpuVars, pipelinesBuilt,
                  gridVars, sumVars >>

\* getMappedRange, new Uint8Array, the "Buffer data summary" logs
ReadMapped(t) ==
  /\ upc[t] = "read"
  /\ summary' = [ summary EXCEPT ![t] = Summary(ViewBytes(t)) ]
  /\ Log(t, << "read" >>)
  /\ UpdateStep(t, "encode")
  /\ UNCHANGED << pc, startVars, exitCode, loopVars, stagingState, stagingData, encoded,
                  gpuVars, pipelinesBuilt,
                  gridVars, sumVars >>

\* Mutant: a failure of the encoder is swallowed and the frame is presented.
SaveRenderedImage_BestEffort(t) ==
  /\ upc[t] = "encode"
  /\ \/ /\ encoded' = [ encoded EXCEPT ![t] = ViewBytes(t) ]
        /\ Log(t, << "encode" >>)
        /\ UpdateStep(t, "present")
     \/ /\ UpdateStep(t, "present")
        /\ UNCHANGED << encoded, trace >>
  /\ UNCHANGED << pc, startVars, exitCode, loopVars, stagingState, stagingData, summary,
                  gpuVars, pipelinesBuilt, gridVars, sumVars >>

\* await this.saveRenderedImage(data, 800, 600)
SaveRenderedImage(t) ==
  /\ upc[t] = "encode"
  /\ \/ /\ encoded' = [ encoded EXCEPT ![t] = ViewBytes(t) ]
        /\ Log(t, << "encode" >>)
        /\ UpdateStep(t, "present")
     \/ /\ UpdateCatch(t, Err("Error", "encode"))
        /\ UNCHANGED << encoded, trace >>
  /\ UNCHANGED << pc, startVars, exitCode, loopVars, stagingState, stagingData, summary,
                  gpuVars, pipelinesBuilt,
                  gridVars, sumVars >>

\* createTexture, sdlTexture.update, canvas.clear, canvas.copy, canvas.present
Present(t) ==
  /\ upc[t] = "present"
  /\ \/ /\ surface' = ViewBytes(t)
        /\ Log(t, << "texture", "clear", "blit", "present" >>)
        /\ UpdateStep(t, "unmap")
     \/ /\ UpdateCatch(t, Err("Error", "texture"))
        /\ UNCHANGED << surface, trace >>
     \/ /\ UpdateCatch(t, Err("Error", "present"))
        /\ Log(t, << "texture" >>)
        /\ UNCHANGED surface
  /\ UNCHANGED << pc, startVars, exitCode, loopVars, stagingState, stagingData, summary,
                  encoded, buffersCreated, renderBuffer, queue, frameCount, pipelinesBuilt,
                  gridVars, sumVars >>

\* Mutant: png.data is the mapped view itself, so unmap() empties it.
Unmap_DetachesConsumers(t) ==
  /\ upc[t] = "unmap"
  /\ stagingState' = [ stagingState EXCEPT ![t] = "unmapped" ]
  /\ encoded' = [ encoded EXCEPT ![t] = << >> ]
  /\ Log(t, << "unmap" >>)
  /\ UpdateStep(t, "done")
  /\ UNCHANGED << pc, startVars, exitCode, loopVars, stagingData, summary,
                  gpuVars, pipelinesBuilt, gridVars, sumVars >>

\* Mutant: the frame is counted again when update() completes.
Unmap_Counts(t) ==
  /\ upc[t] = "unmap"
  /\ stagingState' = [ stagingState EXCEPT ![t] = "unmapped" ]
  /\ frameCount' = frameCount + 1
  /\ Log(t, << "unmap" >>)
  /\ UpdateStep(t, "done")
  /\ UNCHANGED << pc, startVars, exitCode, loopVars, stagingData, summary, encoded,
                  buffersCreated, renderBuffer, queue, surface, pipelinesBuilt,
                  gridVars, sumVars >>

\* stagingBuffer.unmap(); console.log("Frame updated successfully")
Unmap(t) ==
  /\ upc[t] = "unmap"
  /\ stagingState' = [ stagingState EXCEPT ![t] = "unmapped" ]
  /\ Log(t, << "unmap" >>)
  /\ UpdateStep(t, "done")
  /\ UNCHANGED << pc, startVars, exitCode, loopVars, stagingData, summary, encoded,
                  gpuVars, pipelinesBuilt,
                  gridVars, sumVars >>

\* ------------------------------------------------------------------------
\* The device queue
\* ------------------------------------------------------------------------
\* the device executes the oldest submitted command buffer
GpuExec ==
  /\ pc # "exited"
  /\ queue # << >>
  /\ queue' = Tail(queue)
  /\ IF Head(queue).op = "dispatch"
       THEN /\ renderBuffer' = Dispatch(renderBuffer, FrameW, FrameH)
            /\ stagingData' = stagingData
       ELSE /\ stagingData' = [ stagingData EXCEPT ![Head(queue).frame] = renderBuffer ]
            /\ renderBuffer' = renderBuffer
  /\ UNCHANGED << pc, startVars, exitCode, loopVars, upc, failed, thrown, trace,
                  stagingState, summary, encoded, buffersCreated, surface, frameCount,
                  pipelinesBuilt,
                  gridVars, sumVars >>

Next ==
  \/ RequestAdapter
  \/ RequestDevice
  \/ Construct
  \/ InitRenderer
  \/ Finally
  \/ Exit
  \/ \E e \in EventTypes : Post(e)
  \/ LoopDone
  \/ \E name \in NextErrors : LoopNextThrows(name)
  \/ LoopDraw
  \/ LoopQuit
  \/ LoopNoop
  \/ LoopResume
  \/ \E t \in Frames : Render(t)
  \/ \E t \in Frames : CopySubmit(t)
  \/ \E t \in Frames : MapResolve(t)
  \/ \E t \in Frames : \E name \in MapErrors : MapReject(t, name)
  \/ \E t \in Frames : ReadMapped(t)
  \/ \E t \in Frames : SaveRenderedImage(t)
  \/ \E t \in Frames : Present(t)
  \/ \E t \in Frames : Unmap(t)
  \/ GpuExec

Spec == Init /\ [][Next]_vars

TypeOK ==
  /\ pc \in { "requestAdapter", "requestDevice", "construct", "init", "loop_next",
              "await_update", "finished", "fatal", "cleanup", "exited" }
  /\ frameCount \in 0 .. MaxDraws
  /\ cur \in 0 .. MaxDraws
  /\ Len(pending) <= MaxEvents


\* ------------------------------------------------------------------------
\* Vocabulary of the properties
\* ------------------------------------------------------------------------
\* every texel holds the value the shader writes
GreenBuf == [ i \in Texels |-> ShaderValue ]
GreenBytes == Bytes(GreenBuf)

\* steps of one update() whose every statement succeeds, in program order
FullTrace ==
  << "dispatch", "count", "copy", "mapped", "read", "encode",
     "texture", "clear", "blit", "present", "unmap" >>

IsPrefix(a, b) == Len(a) <= Len(b) /\ \A i \in 1 .. Len(a) : a[i] = b[i]

Has(t, step) == \E i \in 1 .. Len(trace[t]) : trace[t][i] = step

\* position of a step in a trace, 0 when absent
Pos(tr, step) ==
  IF \E i \in 1 .. Len(tr) : tr[i] = step
    THEN CHOOSE i \in 1 .. Len(tr) : tr[i] = step
    ELSE 0

InFlight(t) == upc[t] \notin { "idle", "done" }
Succeeded(t) == upc[t] = "done" /\ failed[t] = NoErr
Failed(t) == upc[t] = "done" /\ failed[t] # NoErr
LoopOver == pc \in { "finished", "cleanup", "exited" } /\ exitBy # "none"

\* ------------------------------------------------------------------------
\* C1  Loop resilience
\* ------------------------------------------------------------------------
\* C1: a failure at any step of one Draw event's processing stays inside that
\* update(): it never reaches the catch of loop(), the loop is never ended by
\* it and resumes at events().next(), and every update() whose own steps do
\* not fail performs the full frame (render, readback, encode, present,
\* unmap) and leaves the shader's pixels on the window surface.
C1_LoopResilience ==
  /\ [](exitBy # "update")
  /\ [](\A t \in Frames : thrown[t] = NoErr)
  /\ [][pc = "await_update" /\ pc' # pc => pc' = "loop_next"]_vars
  /\ [](\A t \in Frames : Succeeded(t) => trace[t] = FullTrace /\ surface = GreenBytes)

\* a failed frame followed by a successful one
C1_Witness ==
  /\ Failed(1)
  /\ Succeeded(2)
  /\ surface = GreenBytes
  /\ pc = "loop_next"

\* ------------------------------------------------------------------------
\* C2  Shutdown on Quit
\* ------------------------------------------------------------------------
\* C2: the step that receives a Quit event ends loop() in that same step
\* without starting an update(); after it no events().next() is called, no
\* update() starts and no pending event is consumed, whatever is pending.
C2_QuitShutsDown ==
  [][ /\ (nextCalls' # nextCalls /\ lastNext' = "Quit")
         => (pc' = "finished" /\ exitBy' = "Quit" /\ cur' = cur /\ upc' = upc)
      /\ exitBy = "Quit"
         => /\ nextCalls' = nextCalls
            /\ cur' = cur
            /\ upc' = upc
            /\ Len(pending') >= Len(pending)
            /\ pc' \in { "finished", "cleanup", "exited" } ]_vars

\* the loop has returned on Quit after a frame, with events still pending
C2_Witness ==
  /\ exitBy = "Quit"
  /\ pc = "exited"
  /\ pending # << >>
  /\ cur >= 1

\* ------------------------------------------------------------------------
\* C3  Failure while waiting for the next event
\* ------------------------------------------------------------------------
\* C3 as stated: whenever events().next() fails, loop() exits and does not go
\* back to waiting for another event.
C3_AnyNextFailureExits ==
  [][ (nextCalls' # nextCalls /\ lastNext' \in NextErrors) => pc' = "finished" ]_vars

\* C3 amended: when events().next() fails with an AbortError, loop() exits in
\* that iteration and never calls events().next() again; when it fails with
\* any other error the loop logs it and goes back to events().next().
C3_AbortExitsOthersContinue ==
  [][ /\ (nextCalls' # nextCalls /\ lastNext' = "AbortError")
         => (pc' = "finished" /\ exitBy' = "next")
      /\ (nextCalls' # nextCalls /\ lastNext' \in NextErrors \ { "AbortError" })
         => (pc' = "loop_next" /\ exitBy' = exitBy)
      /\ exitBy = "next"
         => (nextCalls' = nextCalls /\ pc' \in { "finished", "cleanup", "exited" }) ]_vars

\* an AbortError ended the loop after an earlier, other failure did not
C3_Witness ==
  /\ exitBy = "next"
  /\ lastNext = "AbortError"
  /\ nextCalls >= 2
  /\ posted = 0
  /\ pc = "exited"

C6_OneFrameInFlight ==
  /\ [](Cardinality({ t \in Frames : InFlight(t) }) <= 1)
  /\ [](\A t \in Frames : InFlight(t) => pc = "await_update" /\ t = cur)
  /\ [][ (\E t \in Frames : InFlight(t))
         => /\ nextCalls' = nextCalls
            /\ lastNext' = lastNext
            /\ exitBy' = exitBy
            /\ cur' = cur
            /\ \A u \in Frames : (upc[u] # "render" => upc'[u] # "render") ]_vars

\* a second frame awaits its mapping while a Quit is pending
C6_Witness ==
  /\ upc[2] = "await_map"
  /\ upc[1] = "done"
  /\ pending # << >>
  /\ Head(pending) = "Quit"

\* ------------------------------------------------------------------------
\* C7  Round trip
\* ------------------------------------------------------------------------
\* C7: a staging buffer is mapped only after the dispatch and then the copy
\* of its frame were submitted and the mapping was awaited, and whenever it
\* is mapped every texel equals the shader's value; so do the bytes the
\* encoder and the window surface receive.  No texel read back holds the
\* zero the buffers start with.
C7_RoundTrip ==
  \A t \in Frames :
    /\ stagingState[t] = "mapped" => stagingData[t] = GreenBuf
    /\ Has(t, "mapped")
         => /\ 0 < Pos(trace[t], "dispatch")
            /\ Pos(trace[t], "dispatch") < Pos(trace[t], "copy")
            /\ Pos(trace[t], "copy") < Pos(trace[t], "mapped")
    /\ Has(t, "read") => summary[t] = Summary(GreenBytes)
    /\ encoded[t] # << >> => encoded[t] = GreenBytes
    /\ surface # << >> => surface = GreenBytes

\* the mapped bytes of a second frame have been read
C7_Witness ==
  /\ Has(2, "read")
  /\ stagingState[2] = "mapped"
  /\ encoded[1] = GreenBytes


\* ------------------------------------------------------------------------
\* SpecGrid: one dispatch, workgroup by workgroup, for frame dimensions
\* gw x gh
\* ------------------------------------------------------------------------
\* largest index any invocation of a rounded-up grid computes
GridMaxIndex(w, h) ==
  (CeilDiv(h, WorkgroupSize) * WorkgroupSize - 1) * w
    + CeilDiv(w, WorkgroupSize) * WorkgroupSize - 1

InitGrid ==
  /\ ProgInit
  /\ SumIdle
  /\ gw \in 1 .. MaxW
  /\ gh \in 1 .. MaxH
  /\ gdone = {}
  /\ gwrites = [ i \in 0 .. GridMaxIndex(gw, gh) |-> 0 ]
  /\ gnoop = {}

\* the device runs the 16 x 16 invocations of one workgroup of the dispatch
ExecWorkgroup(wg) ==
  /\ wg \in Workgroups(gw, gh) \ gdone
  /\ gdone' = gdone \cup { wg }
  /\ LET ws == InvWrites(wg, gw, gh)
     IN  /\ gwrites' = [ i \in DOMAIN gwrites |->
                           gwrites[i] + Cardinality({ id \in ws : Index(id, gw) = i }) ]
         /\ gnoop' = gnoop \cup (Invocations(wg) \ ws)
  /\ UNCHANGED << gw, gh, progVars, sumVars >>

NextGrid == \E wg \in (0 .. MaxW) \X (0 .. MaxH) : ExecWorkgroup(wg)

SpecGrid == InitGrid /\ [][NextGrid]_vars

GridComplete == gdone = Workgroups(gw, gh)

\* the per-index view of the dispatch agrees with the workgroup-wise one
GridClosedForm ==
  GridComplete =>
    \A i \in DOMAIN gwrites : gwrites[i] = Cardinality(WritersOf(i, gw, gh))

\* ------------------------------------------------------------------------
\* SpecSummary: the "Buffer data summary" of update() over the 800 x 600
\* frame, one row of texels per step
\* ------------------------------------------------------------------------
\* byte b (0-based) of the mapped staging buffer after render() and the copy
DataByte(b) ==
  U32Bytes(TexelAfterDispatch(b \div BytesPerTexel, Width, Height))[(b % BytesPerTexel) + 1]

RowBytes(row) ==
  (row * Width * BytesPerTexel) .. ((row + 1) * Width * BytesPerTexel - 1)

InitSummary ==
  /\ ProgInit
  /\ GridIdle
  /\ SumIdle

\* data.filter(byte => byte !== 0).length and data.findIndex(byte => byte !== 0)
\* advance over the bytes of one more row
ScanRow ==
  /\ srow < Height
  /\ srow' = srow + 1
  /\ scount' = scount + Cardinality({ b \in RowBytes(srow) : DataByte(b) # 0 })
  /\ sfirst' = IF sfirst # -1 THEN sfirst
               ELSE IF \E b \in RowBytes(srow) : DataByte(b) # 0
                      THEN CHOOSE b \in RowBytes(srow) :
                             /\ DataByte(b) # 0
                             /\ \A c \in (srow * Width * BytesPerTexel) .. (b - 1) : DataByte(c) = 0
                      ELSE -1
  /\ UNCHANGED << progVars, gridVars >>

NextSummary == ScanRow

SpecSummary == InitSummary /\ [][NextSummary]_vars


\* ------------------------------------------------------------------------
\* C8  The buffer data summary at 800 x 600
\* ------------------------------------------------------------------------
\* bytes the summary has gone over
ScannedBytes == srow * Width * BytesPerTexel

\* C8 as stated: the readback has length 1,920,000, its count of non-zero
\* bytes is 1,920,000 and its first non-zero byte is at index 0.
C8_AllBytesNonZero ==
  srow = Height =>
    /\ ScannedBytes = 1920000
    /\ scount = 1920000
    /\ sfirst = 0

\* C8 amended: for 800x600 with the shader writing the u32 0xFF00FF00 to every
\* texel, the readback is a byte buffer of length 1,920,000 whose count of
\* non-zero bytes is 960,000 (each texel reads back as the bytes 00 FF 00 FF)
\* and whose first non-zero byte is at index 1.
C8_HalfBytesNonZero ==
  /\ scount * 2 = ScannedBytes
  /\ srow > 0 => sfirst = 1
  /\ srow = Height =>
       /\ ScannedBytes = 1920000
       /\ scount = 960000
       /\ sfirst = 1

\* the summary has gone over the whole frame
C8_Witness == srow = Height /\ scount > 0

\* ------------------------------------------------------------------------
\* C9  No out-of-bounds write
\* ------------------------------------------------------------------------
\* C9: for every frame size, multiples of 16 or not, no invocation of the
\* dispatch stores to an index >= width*height, and the grid has at least
\* width*height invocations.
C9_NoOutOfBoundsWrite ==
  /\ \A i \in DOMAIN gwrites : gwrites[i] > 0 => i < gw * gh
  /\ Cardinality(Grid(gw, gh)) >= gw * gh
  /\ \A wg \in gdone : \A id \in Invocations(wg) :
       Index(id, gw) >= gw * gh => id \in gnoop

\* a complete dispatch over a frame with both sides not multiples of 16, in
\* which some invocation computed an index past the end
C9_Witness ==
  /\ GridComplete
  /\ gw % WorkgroupSize # 0
  /\ gh % WorkgroupSize # 0
  /\ \E id \in gnoop : Index(id, gw) >= gw * gh

\* ------------------------------------------------------------------------
\* C10  Coverage
\* ------------------------------------------------------------------------
\* the invocations of the grid outside the frame
BeyondEdge == { id \in Grid(gw, gh) : id[1] >= gw \/ id[2] >= gh }

StartupFailed == pc \in { "fatal", "cleanup", "exited" } /\ exitBy = "none"

\* C11: the adapter is requested once, the device at most once and only
\* after the adapter, with no retry; when no adapter is found or the device
\* request fails, no window and no GPU buffer or pipeline is created, the
\* loop is never entered, no event is consumed or posted to a window, and the
\* program goes from the fatal error to the cleanup and to the exit.
C11_DeviceAcquiredOnce ==
  /\ [](adapterRequests <= 1 /\ deviceRequests <= adapterRequests)
  /\ [](pc # "requestAdapter" => adapterRequests = 1)
  /\ [](device = "none" /\ pc # "requestAdapter" /\ pc # "requestDevice"
          => /\ StartupFailed
             /\ window = "none"
             /\ buffersCreated = 0
             /\ pipelinesBuilt = 0
             /\ nextCalls = 0
             /\ cur = 0
             /\ posted = 0)
  /\ [][ /\ adapterRequests' # adapterRequests => pc = "requestAdapter"
         /\ deviceRequests' # deviceRequests => pc = "requestDevice"
         /\ pc = "fatal" /\ pc' # pc => pc' = "cleanup"
         /\ device = "none" /\ pc = "cleanup" /\ pc' # pc => pc' = "exited" ]_vars

\* the device request failed and the process has exited
C11_Witness ==
  /\ pc = "exited"
  /\ adapterRequests = 1
  /\ deviceRequests = 1
  /\ device = "none"

\* ------------------------------------------------------------------------
\* C12  End of the event stream
\* ------------------------------------------------------------------------
\* C12: the step in which events().next() reports done ends loop() without
\* starting an update(); afterwards no events().next() is called and no
\* update() starts, and the program takes the normal path: finished, cleanup,
\* exit with status 0.
C12_StreamEndTerminates ==
  /\ [][ /\ (nextCalls' # nextCalls /\ lastNext' = "done")
            => (pc' = "finished" /\ exitBy' = "done" /\ cur' = cur /\ upc' = upc)
         /\ exitBy = "done"
            => /\ nextCalls' = nextCalls
               /\ cur' = cur
               /\ upc' = upc
               /\ pending' = pending \/ Len(pending') > Len(pending)
               /\ pc' \in { "finished", "cleanup", "exited" } ]_vars
  /\ [](lastNext = "done" => exitBy = "done")
  /\ [](exitBy = "done" /\ pc = "exited" => exitCode = 0)

\* the stream ended after a frame, with an event never consumed
C12_Witness ==
  /\ exitBy = "done"
  /\ pc = "exited"
  /\ cur >= 1
  /\ pending # << >>

\* ------------------------------------------------------------------------
\* C13  KeyDown, MouseMotion and unhandled events
\* ------------------------------------------------------------------------
NoopTypes == { "KeyDown", "MouseMotion", "Other" }

\* C13: the step that receives a KeyDown, MouseMotion or unhandled event
\* leaves the Frame Counter, the Output Buffer and the window surface as
\* they are, submits nothing to the queue, creates no buffer and no pipeline,
\* starts no update(), and leaves loop() at events().next().
C13_OtherEventsAreNoops ==
  [][ (nextCalls' # nextCalls /\ lastNext' \in NoopTypes)
      => /\ frameCount' = frameCount
         /\ renderBuffer' = renderBuffer
         /\ surface' = surface
         /\ queue' = queue
         /\ buffersCreated' = buffersCreated
         /\ pipelinesBuilt' = pipelinesBuilt
         /\ stagingState' = stagingState
         /\ stagingData' = stagingData
         /\ cur' = cur
         /\ upc' = upc
         /\ pc' = "loop_next" ]_vars

\* a KeyDown was received after a frame had been presented
C13_Witness ==
  /\ lastNext = "KeyDown"
  /\ pc = "loop_next"
  /\ Succeeded(1)
  /\ surface = GreenBytes


\* ------------------------------------------------------------------------
\* C14  Idempotence under repetition
\* ------------------------------------------------------------------------
\* what one dispatch leaves in a fresh Output Buffer
OneDispatch == Dispatch(ZeroBuf, FrameW, FrameH)

\* C14: any two Draw cycles of one run read back identical bytes (the same
\* summary, the same bytes to the encoder), and the bytes a frame maps are
\* those one dispatch leaves in the Output Buffer however many render() calls
\* were submitted before its readback.
C14_RepeatedFramesAgree ==
  /\ \A t \in Frames : \A u \in Frames :
       /\ (Has(t, "read") /\ Has(u, "read")) => summary[t] = summary[u]
       /\ (Has(t, "encode") /\ Has(u, "encode")) => encoded[t] = encoded[u]
  /\ \A t \in Frames :
       stagingState[t] = "mapped" => stagingData[t] = OneDispatch
  /\ \A t \in Frames :
       (Has(t, "present") /\ upc[t] \in { "unmap", "done" } /\ t = cur)
         => surface = encoded[t]

\* two consecutive Draw cycles have both been read back and encoded
C14_Witness ==
  /\ Succeeded(1)
  /\ Has(2, "encode")
  /\ encoded[1] = encoded[2]
  /\ encoded[2] # << >>

\* ------------------------------------------------------------------------
\* C15  Release of the staging buffer
\* ------------------------------------------------------------------------
\* C15: whenever update() has finished, by success or by failure, the
\* staging buffer of that frame is not mapped.
C15_StagingReleasedOnEveryExit ==
  \A t \in Frames : upc[t] = "done" => stagingState[t] # "mapped"

\* ------------------------------------------------------------------------
\* C16  The bytes given to the consumers
\* ------------------------------------------------------------------------
\* C16: the encoder and the window texture take their bytes while the
\* staging buffer is mapped, never from the view after unmap(); the bytes the
\* encoder was given never change afterwards, and the surface changes only
\* when a frame presents, so no later render() and no unmap() alters them.
C16_ConsumersKeepTheirBytes ==
  /\ [][ \A t \in Frames :
           /\ encoded'[t] # encoded[t]
              => (stagingState[t] = "mapped" /\ encoded[t] = << >> /\ encoded'[t] # << >>)
           /\ encoded[t] # << >> => encoded'[t] = encoded[t] ]_vars
  /\ [][ surface' # surface
         => \E t \in Frames :
              /\ upc[t] = "present"
              /\ stagingState[t] = "mapped"
              /\ surface' = Bytes(stagingData[t]) ]_vars
  /\ [](\A t \in Frames : Has(t, "encode") => Len(encoded[t]) = FrameW * FrameH * BytesPerTexel)
  /\ [](\A t \in Frames : Has(t, "present") => Len(surface) = FrameW * FrameH * BytesPerTexel)

\* the first frame was unmapped and a second render() has been executed by
\* the device, the first frame's bytes still with the encoder
C16_Witness ==
  /\ Succeeded(1)
  /\ stagingState[1] = "unmapped"
  /\ Has(2, "copy")
  /\ queue = << >>
  /\ encoded[1] = GreenBytes
  /\ surface = GreenBytes


BuiltPipeline(t) == upc[t] \notin { "idle", "render" } /\ failed[t].stage # "build"

AfterRender == { "copy", "await_map", "read", "encode", "present", "unmap" }

\* C18: at every point frameCount is the number of render() calls whose
\* queue.submit returned; a render() that throws leaves it unchanged, and no
\* step of update() after render() (copy, map, read, encode, present, unmap,
\* or the catch) changes it.
C18_CountIsSubmittedDispatches ==
  /\ [](frameCount = Cardinality({ t \in Frames : Has(t, "dispatch") }))
  /\ [][ \A t \in Frames :
           /\ (upc[t] = "render" /\ upc'[t] = "done") => frameCount' = frameCount
           /\ (upc[t] \in AfterRender /\ upc'[t] # upc[t]) => frameCount' = frameCount ]_vars

\* one render() threw at submission, the next frame ran to its end
C18_Witness ==
  /\ Failed(1) /\ failed[1].stage = "submit"
  /\ Succeeded(2)
  /\ frameCount = 1

\* ------------------------------------------------------------------------
\* C19  Present after the encoder
\* ------------------------------------------------------------------------
\* C19: a frame touches the window (texture, clear, copy, present) only
\* after its mapAsync resolved and then saveRenderedImage returned in the same
\* update(); a frame whose encoder step fails never presents, and that step
\* leaves the surface as it was.
C19_PresentAfterEncode ==
  /\ [](\A t \in Frames :
          (Has(t, "texture") \/ Has(t, "present"))
            => /\ 0 < Pos(trace[t], "mapped")
               /\ Pos(trace[t], "mapped") < Pos(trace[t], "encode")
               /\ Pos(trace[t], "encode") < Pos(trace[t], "texture")
               /\ encoded[t] # << >>)
  /\ [](\A t \in Frames :
          failed[t].stage = "encode" => ~Has(t, "texture") /\ ~Has(t, "present"))
  /\ [][ \A t \in Frames :
           /\ (upc[t] = "encode" /\ upc'[t] # upc[t]) => surface' = surface
           /\ (upc[t] # "present" /\ upc'[t] = "present") => Has(t, "encode")' ]_vars

\* the encoder failed for the second frame: the surface still shows the first
C19_Witness ==
  /\ Succeeded(1)
  /\ Failed(2) /\ failed[2].stage = "encode"
  /\ surface = encoded[1]
  /\ encoded[2] = << >>

\* ------------------------------------------------------------------------
\* C20  Exit status
\* ------------------------------------------------------------------------
\* The finally block and Deno.exit(0) are straight-line code behind the
\* awaited loop(): once reached, the runtime runs them.
SpecFair == Spec /\ WF_vars(Finally) /\ WF_vars(Exit)

\* C20: once startup has failed or loop() has returned, the program reaches
\* the cleanup and then Deno.exit(0): its next steps are those two, it never
\* goes back into the loop, and it exits with status 0 and no other, whether
\* the outcome was a fatal startup error, a Quit event, an ended stream or an
\* aborted stream.
C20_AlwaysExitsZero ==
  /\ [](pc = "exited" <=> exitCode = 0)
  /\ [](exitCode \in { -1, 0 })
  /\ [](pc = "finished" => exitBy \in { "Quit", "done", "next" })
  /\ [][ /\ (pc \in { "finished", "fatal" } /\ pc' # pc) => pc' = "cleanup"
         /\ (pc = "cleanup" /\ pc' # pc) => (pc' = "exited" /\ exitCode' = 0)
         /\ pc = "exited" => pc' = "exited" ]_vars
  /\ (pc \in { "finished", "fatal" }) ~> (pc = "exited" /\ exitCode = 0)

\* the process has exited after a fatal startup error in the constructor
C20_Witness ==
  /\ pc = "exited"
  /\ exitCode = 0
  /\ exitBy = "none"
  /\ device = "ok"
  /\ window = "none"

====
